---- MODULE Spec2Model ----
(***************************************************************************)
(* A model of gwatts/pulutil: the policy document builder                  *)
(* (src/policy/policy.go) and the deferred template renderer               *)
(* (src/template/template.go).                                             *)
(*                                                                         *)
(* JSON text is modelled as a sequence of tokens (punctuation and quoted   *)
(* strings); the insignificant whitespace json.MarshalIndent adds is not   *)
(* represented.  A Go error is modelled by the message tag of the check    *)
(* that produced it and the chain of sentinel errors errors.Is can find by *)
(* unwrapping it.                                                          *)
(***************************************************************************)
EXTENDS Integers, Sequences, FiniteSets, TLC

\* ------------------------------------------------------------------ bounds
\* Most pieces (literal chunks and {{...}} actions) of a template text.
MaxPieces == 3
\* Most setters applied to one statement in SpecStmt.
MaxOpts == 3
\* Longest Strings value handed to MarshalJSON in SpecStrings.
MaxEntries == 3

\* Most statements New is given in Spec (and a Policy literal holds).
MaxStmts == 2

VARIABLES
    spc,        \* SpecStrings: "input" before Strings.MarshalJSON ran, "done" after
    strs,       \* the Strings value (a sequence of entries)
    sres,       \* what MarshalJSON returned: [panic, js]
    pc,         \* Spec: where the policy is in its life (see PolicyInit)
    policy,     \* the Policy value: [Version, ID, Statement]
    vcalled,    \* whether p.Validate() was called directly
    verr,       \* the error p.Validate() returned
    scalled,    \* index of the statement s.Validate() was last called on, 0 if none
    serr,       \* the error s.Validate() returned
    created,    \* whether ToStringOutput created the Pulumi output (pulumi.ToOutput)
    awaited,    \* whether the SDK awaited the policy's embedded inputs
    data,       \* the resolved Policy handed to the ApplyT callback
    panicVal,   \* the value ToStringOutput (or its callback) panicked with
    out,        \* the JSON the output resolved to, as tokens
    noPanic,    \* template: the package's test switch
    testTemplateError, \* the error templateError captured when noPanic is set
    tpc,        \* SpecTemplate: where the call of New / NewJSON is (see TemplateIdle)
    tvars,      \* the vars argument: name -> [async, val]
    names,      \* renderTemplate's names slice: the keys of vars as the range loop met them
    targs,      \* renderTemplate's args slice: the values of vars, in the same order
    tplText,    \* the templateText argument, as pieces
    validateJSON, \* renderTemplate's validateJSON argument
    pending,    \* the asynchronous entries of vars not yet resolved
    joined,     \* whether pulumi.All(args...).ApplyT(...) was registered
    execCount,  \* how many times tpl.Execute ran
    jsonChecked, \* whether json.Unmarshal ran on the rendered text
    toutput,    \* the returned StringOutput: [state, text]
    tpanic,     \* the error New / NewJSON or the callback panicked with
    stmt,       \* SpecStmt: the Stmt s inside Statement's closure
    history     \* the StatementOpts applied to s so far, in call order

stringsVars == <<spc, strs, sres>>
policyVars == <<pc, policy, vcalled, verr, scalled, serr, created, awaited, data,
                panicVal, out>>
templateVars == <<noPanic, testTemplateError, tpc, tvars, names, targs, tplText,
                  validateJSON, pending, joined, execCount, jsonChecked, toutput,
                  tpanic>>
stmtVars == <<stmt, history>>
vars == <<spc, strs, sres, pc, policy, vcalled, verr, scalled, serr, created,
          awaited, data, panicVal, out, noPanic, testTemplateError, tpc, tvars,
          names, targs, tplText, validateJSON, pending, joined, execCount, jsonChecked,
          toutput, tpanic, stmt, history>>

\* ------------------------------------------------------------- JSON tokens
P(x) == <<"punct", x>>
Q(x) == <<"string", x>>
JNull == <<"null", "null">>

RECURSIVE JoinComma(_)
\* The items of a JSON array or object, separated by commas.
JoinComma(items) ==
    IF Len(items) = 0 THEN <<>>
    ELSE IF Len(items) = 1 THEN items[1]
    ELSE items[1] \o <<P(",")>> \o JoinComma(Tail(items))

\* json.Marshal of a Go string.
MarshalString(s) == <<Q(s)>>

\* json.Marshal of a non-nil []string.
MarshalStringSlice(ss) ==
    <<P("[")>> \o JoinComma([i \in 1..Len(ss) |-> MarshalString(ss[i])]) \o <<P("]")>>

\* ------------------------------------------------------------------ Strings
\* An entry of a Strings value ([]interface{}): a Go string, a []string, or a
\* Pulumi input (pulumi.String / StringOutput, pulumi.StringArray /
\* StringArrayOutput) that the SDK replaces by its resolved value before the
\* policy is marshalled.
Str(s) == [tag |-> "string",      val |-> <<s>>]
List(ss) == [tag |-> "list",        val |-> ss]
StrInput(s) == [tag |-> "stringInput", val |-> <<s>>]
ArrayInput(ss) == [tag |-> "arrayInput", val |-> ss]

IsPlain(e) == e.tag \in {"string", "list"}

RECURSIVE flattenFrom(_, _)
flattenFrom(s, i) ==
    IF i > Len(s) THEN <<>> ELSE s[i].val \o flattenFrom(s, i + 1)

\* Strings.flatten: the entries' strings in order; panics on any entry that is
\* neither a string nor a []string.
flattenPanics(s) == \E i \in 1..Len(s) : ~IsPlain(s[i])
flatten(s) == flattenFrom(s, 1)

\* A faulty variant of MarshalJSON: chooses the form by the number of entries.
MarshalJSONByEntries(s) ==
    IF flattenPanics(s) THEN [panic |-> TRUE, js |-> <<>>]
    ELSE IF Len(s) = 1 /\ Len(flatten(s)) >= 1
         THEN [panic |-> FALSE, js |-> MarshalString(flatten(s)[1])]
         ELSE [panic |-> FALSE, js |-> MarshalStringSlice(flatten(s))]

\* Strings.MarshalJSON.
MarshalJSON(s) ==
    IF flattenPanics(s) THEN [panic |-> TRUE, js |-> <<>>]
    ELSE LET entries == flatten(s) IN
         IF Len(entries) = 1
         THEN [panic |-> FALSE, js |-> MarshalString(entries[1])]
         ELSE [panic |-> FALSE, js |-> MarshalStringSlice(entries)]

\* ------------------------------------------------------------------- errors
ErrInvalidPolicy == "ErrInvalidPolicy"
ErrInvalidStatement == "ErrInvalidStatement"

\* A nil error.
NoError == [msg |-> <<>>, is |-> {}]
\* fmt.Errorf("%w: ...", sentinel): an error errors.Is finds the sentinel in.
Errorf(sentinel, tag) == [msg |-> <<tag>>, is |-> {sentinel}]
\* fmt.Errorf("...: %w", err): wraps err, keeping what errors.Is finds in it.
Wrapf(tag, err) == [msg |-> <<tag>> \o err.msg, is |-> err.is]
\* errors.Is(err, sentinel)
ErrorsIs(err, sentinel) == sentinel \in err.is

\* --------------------------------------------------------------------- maps
\* A Go map with string keys is a function on the set of its keys; a nil map
\* and an empty one are both the function with no keys (len 0 either way).
EmptyMap == [k \in {} |-> <<>>]
MapLen(m) == Cardinality(DOMAIN m)
\* m[k] of a Go map: the zero value (a nil Strings) when k is not a key.
MapGet(m, k) == IF k \in DOMAIN m THEN m[k] ELSE <<>>
MapPut(m, k, v) == [x \in (DOMAIN m) \cup {k} |-> IF x = k THEN v ELSE m[x]]
\* Every string used as a map key, in the byte order encoding/json sorts keys by.
KeyOrder == <<"AWS", "CanonicalUser", "StringEquals", "StringLike", "aws:userid", "s3:prefix">>
SortedKeys(m) == SelectSeq(KeyOrder, LAMBDA k : k \in DOMAIN m)

\* --------------------------------------------------------- Stmt and setters
Allow == "Allow"
Deny == "Deny"

\* The Stmt Statement starts from: Sid set, both principal maps empty.
NewStmt(sid) ==
    [Sid |-> sid, Effect |-> "", Principal |-> EmptyMap, NotPrincipal |-> EmptyMap,
     Action |-> <<>>, NotAction |-> <<>>, Resource |-> <<>>, NotResource |-> <<>>,
     Condition |-> EmptyMap]

Effect(s, effect) == [s EXCEPT !.Effect = effect]
Principal(s, principalType, principalID) ==
    [s EXCEPT !.Principal = MapPut(@, principalType, MapGet(@, principalType) \o principalID)]
NotPrincipal(s, principalType, principalID) ==
    [s EXCEPT !.NotPrincipal = MapPut(@, principalType, MapGet(@, principalType) \o principalID)]
\* A faulty variant of Action: the arguments replace the field.
ActionOverwriting(s, action) == [s EXCEPT !.Action = action]
\* Action(action...)
Action(s, action) == [s EXCEPT !.Action = @ \o action]
NotAction(s, action) == [s EXCEPT !.NotAction = @ \o action]
Resource(s, resource) == [s EXCEPT !.Resource = @ \o resource]
NotResource(s, resource) == [s EXCEPT !.NotResource = @ \o resource]
\* A faulty variant of Condition: the values are appended to those of the pair.
ConditionAppending(s, conditionOp, conditionKey, conditionValue) ==
    [s EXCEPT !.Condition =
        MapPut(@, conditionOp,
               MapPut(IF conditionOp \in DOMAIN @ THEN @[conditionOp] ELSE EmptyMap,
                      conditionKey,
                      (IF conditionOp \in DOMAIN @ THEN MapGet(@[conditionOp], conditionKey)
                       ELSE <<>>) \o conditionValue))]
\* Condition(conditionOp, conditionKey, conditionValue...)
Condition(s, conditionOp, conditionKey, conditionValue) ==
    [s EXCEPT !.Condition =
        MapPut(@, conditionOp,
               MapPut(IF conditionOp \in DOMAIN @ THEN @[conditionOp] ELSE EmptyMap,
                      conditionKey, conditionValue))]

\* A StatementOpt value: the setter and its arguments (t: effect, principal type
\* or condition operator; k: condition key; args: the variadic arguments).
Opt(name, t, k, args) == [name |-> name, t |-> t, k |-> k, args |-> args]
ApplyOpt(s, o) ==
    CASE o.name = "Effect"       -> Effect(s, o.t)
      [] o.name = "Principal"    -> Principal(s, o.t, o.args)
      [] o.name = "NotPrincipal" -> NotPrincipal(s, o.t, o.args)
      [] o.name = "Action"       -> Action(s, o.args)
      [] o.name = "NotAction"    -> NotAction(s, o.args)
      [] o.name = "Resource"     -> Resource(s, o.args)
      [] o.name = "NotResource"  -> NotResource(s, o.args)
      [] o.name = "Condition"    -> Condition(s, o.t, o.k, o.args)

RECURSIVE ApplyOpts(_, _)
\* The loop of Statement's closure: every opt applied to s in order.
ApplyOpts(s, opts) ==
    IF opts = <<>> THEN s ELSE ApplyOpts(ApplyOpt(s, Head(opts)), Tail(opts))

\* ------------------------------------------------------------- validation
Populated(x) == Len(x) > 0

\* A faulty variant of StmtValidate: the Resource / NotResource check is missing.
StmtValidateNoResourceCheck(s) ==
    IF s.Effect # Allow /\ s.Effect # Deny THEN Errorf(ErrInvalidStatement, "invalid Effect")
    ELSE IF MapLen(s.Principal) > 0 /\ MapLen(s.NotPrincipal) > 0
        THEN Errorf(ErrInvalidStatement, "Principal and NotPrincipal")
    ELSE IF Len(s.Action) = 0 /\ Len(s.NotAction) = 0
        THEN Errorf(ErrInvalidStatement, "no Action or NotAction")
    ELSE IF Len(s.Action) > 0 /\ Len(s.NotAction) > 0
        THEN Errorf(ErrInvalidStatement, "Action and NotAction")
    ELSE NoError

\* Stmt.Validate
StmtValidate(s) ==
    IF s.Effect # Allow /\ s.Effect # Deny THEN Errorf(ErrInvalidStatement, "invalid Effect")
    ELSE IF MapLen(s.Principal) > 0 /\ MapLen(s.NotPrincipal) > 0
        THEN Errorf(ErrInvalidStatement, "Principal and NotPrincipal")
    ELSE IF Len(s.Action) = 0 /\ Len(s.NotAction) = 0
        THEN Errorf(ErrInvalidStatement, "no Action or NotAction")
    ELSE IF Len(s.Action) > 0 /\ Len(s.NotAction) > 0
        THEN Errorf(ErrInvalidStatement, "Action and NotAction")
    ELSE IF Len(s.Resource) > 0 /\ Len(s.NotResource) > 0
        THEN Errorf(ErrInvalidStatement, "Resource and NotResource")
    ELSE NoError

RECURSIVE ValidateStatementsAsPolicyError(_, _)
\* A faulty variant of the loop: a failing statement is reported as ErrInvalidPolicy.
ValidateStatementsAsPolicyError(stmts, i) ==
    IF i > Len(stmts) THEN NoError
    ELSE LET err == StmtValidate(stmts[i]) IN
         IF err # NoError
         THEN [msg |-> <<"policy has errors">> \o err.msg, is |-> {ErrInvalidPolicy}]
         ELSE ValidateStatementsAsPolicyError(stmts, i + 1)

RECURSIVE ValidateStatements(_, _)
\* The loop of Policy.Validate: the first failing statement ends it.
ValidateStatements(stmts, i) ==
    IF i > Len(stmts) THEN NoError
    ELSE LET err == StmtValidate(stmts[i]) IN
         IF err # NoError THEN Wrapf("policy has errors", err)
         ELSE ValidateStatements(stmts, i + 1)

\* A faulty variant of PolicyValidate: && in place of || in the version / id check.
PolicyValidateBothMissing(p) ==
    IF p.Version = "" /\ p.ID = "" THEN Errorf(ErrInvalidPolicy, "no version or id")
    ELSE ValidateStatements(p.Statement, 1)

\* Policy.Validate
PolicyValidate(p) ==
    IF p.Version = "" \/ p.ID = "" THEN Errorf(ErrInvalidPolicy, "no version or id")
    ELSE ValidateStatements(p.Statement, 1)

RECURSIVE SeqsUpTo(_, _)
\* All sequences over S of length at most n.
SeqsUpTo(S, n) ==
    IF n = 0 THEN { <<>> }
    ELSE LET shorter == SeqsUpTo(S, n - 1) IN
         shorter \cup { Append(q, x) : q \in { r \in shorter : Len(r) = n - 1 }, x \in S }

NoResult == [panic |-> FALSE, js |-> <<>>]

\* ---------------------------------------------- resolving embedded inputs
\* What pulumi.ToOutput leaves of an entry once it resolved: a pulumi.String or
\* StringOutput becomes a string, a pulumi.StringArray a []string.
ResolveEntry(e) ==
    CASE e.tag = "stringInput" -> [tag |-> "string", val |-> e.val]
      [] e.tag = "arrayInput"  -> [tag |-> "list", val |-> e.val]
      [] OTHER -> e
ResolveStrings(s) == [i \in 1..Len(s) |-> ResolveEntry(s[i])]
ResolveMap(m) == [k \in DOMAIN m |-> ResolveStrings(m[k])]
ResolveStmt(s) ==
    [s EXCEPT !.Principal = ResolveMap(@), !.NotPrincipal = ResolveMap(@),
              !.Action = ResolveStrings(@), !.NotAction = ResolveStrings(@),
              !.Resource = ResolveStrings(@), !.NotResource = ResolveStrings(@),
              !.Condition = [op \in DOMAIN @ |-> ResolveMap(@[op])]]
ResolvePolicy(p) ==
    [p EXCEPT !.Statement = [i \in 1..Len(@) |-> ResolveStmt(@[i])]]

\* ------------------------------------------------------ json.MarshalIndent
Member(key, value) == <<Q(key), P(":")>> \o value
Object(members) == <<P("{")>> \o JoinComma(members) \o <<P("}")>>

\* A map[string]Strings: keys sorted, each value through Strings.MarshalJSON.
MarshalStringsMap(m) ==
    LET keys == SortedKeys(m) IN
    Object([i \in 1..Len(keys) |-> Member(keys[i], MarshalJSON(m[keys[i]]).js)])
\* The Condition field, a map[string]map[string]Strings.
MarshalCondition(m) ==
    LET keys == SortedKeys(m) IN
    Object([i \in 1..Len(keys) |-> Member(keys[i], MarshalStringsMap(m[keys[i]]))])

\* One field of a Stmt tagged omitempty: absent when empty is TRUE.
OmitEmpty(empty, key, value) == IF empty THEN <<>> ELSE <<Member(key, value)>>

\* A Stmt, by its struct tags: the fields in declaration order, Effect always,
\* the others only when not empty (a string "", a map or slice of length 0).
MarshalStmt(s) ==
    Object(   OmitEmpty(s.Sid = "", "Sid", MarshalString(s.Sid))
           \o <<Member("Effect", MarshalString(s.Effect))>>
           \o OmitEmpty(MapLen(s.Principal) = 0, "Principal", MarshalStringsMap(s.Principal))
           \o OmitEmpty(MapLen(s.NotPrincipal) = 0, "NotPrincipal", MarshalStringsMap(s.NotPrincipal))
           \o OmitEmpty(Len(s.Action) = 0, "Action", MarshalJSON(s.Action).js)
           \o OmitEmpty(Len(s.NotAction) = 0, "NotAction", MarshalJSON(s.NotAction).js)
           \o OmitEmpty(Len(s.Resource) = 0, "Resource", MarshalJSON(s.Resource).js)
           \o OmitEmpty(Len(s.NotResource) = 0, "NotResource", MarshalJSON(s.NotResource).js)
           \o OmitEmpty(MapLen(s.Condition) = 0, "Condition", MarshalCondition(s.Condition)))

\* Stmts is a plain []Stmt with no MarshalJSON of its own: encoding/json writes
\* a nil slice (no Statement was ever appended) as null and any other as an
\* array, whatever its length.
MarshalStmts(stmts) ==
    IF Len(stmts) = 0 THEN <<JNull>>
    ELSE <<P("[")>> \o JoinComma([i \in 1..Len(stmts) |-> MarshalStmt(stmts[i])]) \o <<P("]")>>

\* The Policy struct: Version, Id, Statement, none of them omitempty.
MarshalPolicy(p) ==
    Object(<<Member("Version", MarshalString(p.Version)),
             Member("Id", MarshalString(p.ID)),
             Member("Statement", MarshalStmts(p.Statement))>>)

\* Whether marshalling p panics: some Strings in it makes flatten panic.
StmtStrings(s) ==
    {s.Action, s.NotAction, s.Resource, s.NotResource}
    \cup { s.Principal[k] : k \in DOMAIN s.Principal }
    \cup { s.NotPrincipal[k] : k \in DOMAIN s.NotPrincipal }
    \cup UNION { { s.Condition[op][k] : k \in DOMAIN s.Condition[op] } : op \in DOMAIN s.Condition }
MarshalPanics(p) ==
    \E i \in 1..Len(p.Statement) : \E x \in StmtStrings(p.Statement[i]) : flattenPanics(x)

\* --------------------------------------------------- the inputs of the model
\* The option lists Statement is called with, with their Sid.
StatementCalls ==
    { \* the statement of TestStringArrayJSON
      <<"stmt1", <<Opt("Effect", Allow, "", <<>>),
                   Opt("Action", "", "", <<Str("action")>>),
                   Opt("Principal", "AWS", "", <<Str("aws-id"), ArrayInput(<<"id2", "id3">>)>>),
                   Opt("Resource", "", "", <<ArrayInput(<<"r1">>)>>)>> >>,
      \* the second statement of TestMultiStmtJSON
      <<"stmt2", <<Opt("Effect", Deny, "", <<>>),
                   Opt("NotPrincipal", "AWS", "", <<StrInput("aws-id2")>>),
                   Opt("NotAction", "", "", <<StrInput("s3:PutObject")>>),
                   Opt("NotResource", "", "", <<StrInput("arn2")>>)>> >>,
      \* no Sid, setters repeated, a condition set twice
      <<"", <<Opt("Effect", Allow, "", <<>>),
              Opt("Action", "", "", <<Str("s3:GetObject")>>),
              Opt("Action", "", "", <<List(<<"s3:PutObject">>)>>),
              Opt("Principal", "CanonicalUser", "", <<Str("u1")>>),
              Opt("Principal", "AWS", "", <<Str("p1")>>),
              Opt("Condition", "StringLike", "s3:prefix", <<Str("x")>>),
              Opt("Condition", "StringLike", "s3:prefix", <<Str("home"), Str("tmp")>>),
              Opt("Condition", "StringEquals", "aws:userid", <<Str("u")>>)>> >>,
      \* an Action whose only entry is an empty list; a principal type without ids
      <<"edge", <<Opt("Effect", Deny, "", <<>>),
                  Opt("Action", "", "", <<List(<<>>)>>),
                  Opt("Principal", "AWS", "", <<>>)>> >>,
      \* Effect never set
      <<"noeffect", <<Opt("Action", "", "", <<Str("action")>>)>> >>,
      \* an Effect that is neither Allow nor Deny
      <<"badeffect", <<Opt("Effect", "Maybe", "", <<>>),
                       Opt("Action", "", "", <<Str("action")>>)>> >>,
      <<"bothprincipal", <<Opt("Effect", Allow, "", <<>>),
                           Opt("Principal", "AWS", "", <<Str("p1")>>),
                           Opt("NotPrincipal", "AWS", "", <<Str("p2")>>),
                           Opt("Action", "", "", <<Str("action")>>)>> >>,
      <<"noaction", <<Opt("Effect", Allow, "", <<>>),
                      Opt("Resource", "", "", <<Str("r1")>>)>> >>,
      <<"bothaction", <<Opt("Effect", Allow, "", <<>>),
                        Opt("Action", "", "", <<Str("action")>>),
                        Opt("NotAction", "", "", <<Str("other")>>)>> >>,
      <<"bothresource", <<Opt("Effect", Deny, "", <<>>),
                          Opt("Action", "", "", <<Str("action")>>),
                          Opt("Resource", "", "", <<Str("r1")>>),
                          Opt("NotResource", "", "", <<Str("r2")>>)>> >> }

\* Statement(sid, opts...)(p): builds the Stmt and appends it to p.Statement.
StatementOpt(p, sid, opts) ==
    [p EXCEPT !.Statement = Append(@, ApplyOpts(NewStmt(sid), opts))]

PolicyIDs == {"", "id"}
PolicyVersions == {"", "2012-10-17"}
\* The statements a Policy literal is written with.
LiteralStmts == { ApplyOpts(NewStmt(c[1]), c[2]) : c \in StatementCalls }

\* ----------------------------------------------------------------- template
ErrCompileError == "ErrCompileError"
ErrExecuteError == "ErrExecuteError"
ErrInvalidJSON == "ErrInvalidJSON"

\* A value of vars once resolved: a string, or a struct with the one field F.
StringVal(s) == [kind |-> "string", s |-> s]
StructVal(s) == [kind |-> "struct", s |-> s]

\* A template text is a sequence of pieces: a literal chunk of text, the
\* action {{.a}}, the action {{.a.b}}, or an action that is never closed
\* ("{{.a}", as in the invalid-template test).
Text(c) == [k |-> "text",     a |-> c, b |-> ""]
Field(a) == [k |-> "field",    a |-> a, b |-> ""]
Field2(a, b) == [k |-> "field2",   a |-> a, b |-> b]
Unclosed(a) == [k |-> "unclosed", a |-> a, b |-> ""]

\* tpl.New("tpl").Parse(templateText) fails: some action is malformed.
ParseFails(text) == \E i \in 1..Len(text) : text[i].k = "unclosed"

\* What text/template prints for a value: a string as it is, a struct in
\* braces, an invalid value (a missing map key) as "<no value>".
NoValue == "<no value>"
PrintValue(v) == IF v.kind = "string" THEN v.s ELSE "{x}"

\* One action evaluated against the data map: [err, chunk].  With the default
\* missingkey option a name that is not a key of the map evaluates to an
\* invalid value, and so does any field chain below it: no error, the text
\* "<no value>".  A field of a value that has no such field is an error.
EvalPiece(piece, finalVars) ==
    CASE piece.k = "text" -> [err |-> FALSE, chunk |-> piece.a]
      [] piece.k = "field" ->
            IF piece.a \in DOMAIN finalVars
            THEN [err |-> FALSE, chunk |-> PrintValue(finalVars[piece.a])]
            ELSE [err |-> FALSE, chunk |-> NoValue]
      [] piece.k = "field2" ->
            IF piece.a \notin DOMAIN finalVars
            THEN [err |-> FALSE, chunk |-> NoValue]
            ELSE IF finalVars[piece.a].kind = "struct" /\ piece.b = "F"
                 THEN [err |-> FALSE, chunk |-> finalVars[piece.a].s]
                 ELSE [err |-> TRUE, chunk |-> ""]
      [] OTHER -> [err |-> TRUE, chunk |-> ""]

RECURSIVE ExecuteFrom(_, _, _, _)
ExecuteFrom(text, finalVars, i, compiled) ==
    IF i > Len(text) THEN [err |-> FALSE, text |-> compiled]
    ELSE LET r == EvalPiece(text[i], finalVars) IN
         IF r.err THEN [err |-> TRUE, text |-> compiled]
         ELSE ExecuteFrom(text, finalVars, i + 1, Append(compiled, r.chunk))

\* tpl.Execute(&compiled, finalVars): [err, text], text being what was written
\* to the builder (all of the rendering, or the part before the error).
Execute(text, finalVars) == ExecuteFrom(text, finalVars, 1, <<>>)

RECURSIVE ParseValue(_, _)
\* encoding/json's scanner on the chunks of s from position i: the position
\* after one JSON value (a number of 1s, a string, an array of at most one
\* element, there being no comma among the chunks), 0 on a syntax error.
ParseValue(s, i) ==
    IF i > Len(s) THEN 0
    ELSE IF s[i] = "1" THEN
        IF i < Len(s) /\ s[i + 1] = "1" THEN ParseValue(s, i + 1) ELSE i + 1
    ELSE IF s[i] = "\"" THEN
        LET closing == { j \in (i + 1)..Len(s) : s[j] = "\"" } IN
        IF closing = {} THEN 0
        ELSE (CHOOSE j \in closing : \A k \in closing : j <= k) + 1
    ELSE IF s[i] = "[" THEN
        IF i < Len(s) /\ s[i + 1] = "]" THEN i + 2
        ELSE LET j == ParseValue(s, i + 1) IN
             IF j # 0 /\ j <= Len(s) /\ s[j] = "]" THEN j + 1 ELSE 0
    ELSE 0

\* json.Unmarshal([]byte(result), &tmp) returns no error.
UnmarshalOK(s) == ParseValue(s, 1) = Len(s) + 1

\* The orders in which a range loop may meet the keys of a map: any.
RangeOrders(m) ==
    { o \in [1..Cardinality(DOMAIN m) -> DOMAIN m] :
        \A i, j \in DOMAIN o : o[i] = o[j] => i = j }

\* A faulty variant of FinalVars: names[i] is bound to the argument at the
\* mirrored index.
FinalVarsMirrored(ns, as) ==
    [n \in { ns[i] : i \in 1..Len(ns) } |->
        as[Len(as) + 1 - (CHOOSE i \in 1..Len(ns) : ns[i] = n)].val]

\* The finalVars map of the callback: finalVars[names[i]] = v for every
\* resolved argument v at index i.
FinalVars(ns, as) ==
    [n \in { ns[i] : i \in 1..Len(ns) } |->
        as[CHOOSE i \in 1..Len(ns) : ns[i] = n /\ \A j \in (i + 1)..Len(ns) : ns[j] # n].val]

\* err.Error() as the text of a string output: one chunk, the message.
ErrorText(err) == <<err.msg[1]>>

NoOutput == [state |-> "none", text |-> <<>>]
PendingOutput == [state |-> "pending", text |-> <<>>]
ResolvedOutput(text) == [state |-> "resolved", text |-> text]

\* tpc: "idle" before the call; "waiting" the call returned a pending output
\* whose callback waits for the inputs; "returned" the call returned an output
\* already resolved (a compile error in test mode); "done" the callback ran and
\* the output resolved; "panicked" the call or the callback panicked.
TemplateIdle ==
    /\ tpc = "idle"
    /\ testTemplateError = NoError
    /\ tvars = EmptyMap
    /\ names = <<>>
    /\ targs = <<>>
    /\ tplText = <<>>
    /\ validateJSON = FALSE
    /\ pending = {}
    /\ joined = FALSE
    /\ execCount = 0
    /\ jsonChecked = FALSE
    /\ toutput = NoOutput
    /\ tpanic = NoError

\* --------------------------------------------------------------- Spec: policy
NoPolicy == [Version |-> "", ID |-> "", Statement |-> <<>>]

\* pc: "init" nothing built; "new" inside New, applying its opts; "built" the
\* Policy is complete; "applying" ToStringOutput returned its output; "resolved"
\* the SDK resolved the inputs; "serialized" the callback returned the JSON;
\* "panicked" ToStringOutput or its callback panicked.
PolicyIdle ==
    /\ pc = "init"
    /\ policy = NoPolicy
    /\ vcalled = FALSE
    /\ verr = NoError
    /\ scalled = 0
    /\ serr = NoError
    /\ created = FALSE
    /\ awaited = FALSE
    /\ data = NoPolicy
    /\ panicVal = NoError
    /\ out = <<>>

StringsIdle ==
    /\ spc = "idle"
    /\ strs = <<>>
    /\ sres = NoResult

\* No statement is under construction.
StmtIdle ==
    /\ stmt = NewStmt("")
    /\ history = <<>>

\* New(id, ...): the Policy before its opts are applied.
New(id) ==
    /\ pc = "init"
    /\ policy' = [Version |-> "2012-10-17", ID |-> id, Statement |-> <<>>]
    /\ pc' = "new"
    /\ UNCHANGED <<vcalled, verr, scalled, serr, created, awaited, data, panicVal, out>>
    /\ UNCHANGED <<stringsVars, templateVars, stmtVars>>

\* One round of New's loop: opt(p), opt being a Statement(sid, opts...).
Statement(sid, opts) ==
    /\ pc = "new"
    /\ Len(policy.Statement) < MaxStmts
    /\ policy' = StatementOpt(policy, sid, opts)
    /\ UNCHANGED <<pc, vcalled, verr, scalled, serr, created, awaited, data, panicVal, out>>
    /\ UNCHANGED <<stringsVars, templateVars, stmtVars>>

\* New returns p.
NewReturn ==
    /\ pc = "new"
    /\ pc' = "built"
    /\ UNCHANGED <<policy, vcalled, verr, scalled, serr, created, awaited, data, panicVal, out>>
    /\ UNCHANGED <<stringsVars, templateVars, stmtVars>>

\* A Policy written as a composite literal (as in TestPolicy), which need not
\* set Version or ID.
PolicyLiteral ==
    /\ pc = "init"
    /\ \E version \in PolicyVersions, id \in PolicyIDs,
          stmts \in SeqsUpTo(LiteralStmts, MaxStmts) :
            policy' = [Version |-> version, ID |-> id, Statement |-> stmts]
    /\ pc' = "built"
    /\ UNCHANGED <<vcalled, verr, scalled, serr, created, awaited, data, panicVal, out>>
    /\ UNCHANGED <<stringsVars, templateVars, stmtVars>>

\* p.Validate()
Validate ==
    /\ pc = "built"
    /\ ~vcalled
    /\ vcalled' = TRUE
    /\ verr' = PolicyValidate(policy)
    /\ UNCHANGED <<pc, policy, scalled, serr, created, awaited, data, panicVal, out>>
    /\ UNCHANGED <<stringsVars, templateVars, stmtVars>>

\* p.Statement[i].Validate()
ValidateStmt(i) ==
    /\ pc = "built"
    /\ scalled = 0
    /\ scalled' = i
    /\ serr' = StmtValidate(policy.Statement[i])
    /\ UNCHANGED <<pc, policy, vcalled, verr, created, awaited, data, panicVal, out>>
    /\ UNCHANGED <<stringsVars, templateVars, stmtVars>>

\* A faulty variant of ToStringOutput: the output is created without validating.
ToStringOutputUnvalidated ==
    /\ pc = "built"
    /\ created' = TRUE
    /\ pc' = "applying"
    /\ UNCHANGED <<policy, vcalled, verr, scalled, serr, awaited, data, panicVal, out>>
    /\ UNCHANGED <<stringsVars, templateVars, stmtVars>>

\* p.ToStringOutput(), up to its return: validates, panics on an error, else
\* creates the output and registers the callback.
ToStringOutput ==
    /\ pc = "built"
    /\ LET err == PolicyValidate(policy) IN
       IF err # NoError
       THEN /\ pc' = "panicked"
            /\ panicVal' = err
            /\ UNCHANGED created
       ELSE /\ pc' = "applying"
            /\ created' = TRUE
            /\ UNCHANGED panicVal
    /\ UNCHANGED <<policy, vcalled, verr, scalled, serr, awaited, data, out>>
    /\ UNCHANGED <<stringsVars, templateVars, stmtVars>>

\* The SDK awaits every input embedded in p and resolves the output's value.
AwaitInputs ==
    /\ pc = "applying"
    /\ awaited' = TRUE
    /\ data' = ResolvePolicy(policy)
    /\ pc' = "resolved"
    /\ UNCHANGED <<policy, vcalled, verr, scalled, serr, created, panicVal, out>>
    /\ UNCHANGED <<stringsVars, templateVars, stmtVars>>

\* The ApplyT callback: json.MarshalIndent(data, "", "    ").
ApplyMarshal ==
    /\ pc = "resolved"
    /\ IF MarshalPanics(data)
       THEN /\ pc' = "panicked"
            /\ panicVal' = [msg |-> <<"unexpected type passed to flatten">>, is |-> {}]
            /\ UNCHANGED out
       ELSE /\ pc' = "serialized"
            /\ out' = MarshalPolicy(data)
            /\ UNCHANGED panicVal
    /\ UNCHANGED <<policy, vcalled, verr, scalled, serr, created, awaited, data>>
    /\ UNCHANGED <<stringsVars, templateVars, stmtVars>>

PolicyInit ==
    /\ PolicyIdle
    /\ StringsIdle
    /\ noPanic = FALSE
    /\ TemplateIdle
    /\ StmtIdle

Next ==
    \/ \E id \in PolicyIDs : New(id)
    \/ \E c \in StatementCalls : Statement(c[1], c[2])
    \/ NewReturn
    \/ PolicyLiteral
    \/ Validate
    \/ \E i \in 1..Len(policy.Statement) : ValidateStmt(i)
    \/ ToStringOutput
    \/ AwaitInputs
    \/ ApplyMarshal

Spec == PolicyInit /\ [][Next]_vars

\* ---------------------------------------------- SpecStrings: json.Marshal(Strings)
StringsEntries ==
    { Str("one"), Str("two"), List(<<>>), List(<<"one", "two">>), StrInput("one") }

StringsInit ==
    /\ spc = "input"
    /\ strs \in SeqsUpTo(StringsEntries, MaxEntries)
    /\ sres = NoResult
    /\ PolicyIdle
    /\ noPanic = FALSE
    /\ TemplateIdle
    /\ StmtIdle

\* json.Marshal(strs), as TestStringsJSON calls it.
MarshalStrings ==
    /\ spc = "input"
    /\ sres' = MarshalJSON(strs)
    /\ spc' = "done"
    /\ UNCHANGED strs
    /\ UNCHANGED <<policyVars, templateVars, stmtVars>>

StringsNext == MarshalStrings

SpecStrings == StringsInit /\ [][StringsNext]_vars

\* ------------------------------------------------- SpecTemplate: New / NewJSON
\* The vars New is called with: A absent, a plain "1" or an output resolving to
\* "ok"; B absent, a plain struct or an output resolving to "1".
VarChoicesA == { EmptyMap,
                 [n \in {"A"} |-> [async |-> FALSE, val |-> StringVal("1")]],
                 [n \in {"A"} |-> [async |-> TRUE, val |-> StringVal("ok")]] }
VarChoicesB == { EmptyMap,
                 [n \in {"B"} |-> [async |-> FALSE, val |-> StructVal("x")]],
                 [n \in {"B"} |-> [async |-> TRUE, val |-> StringVal("1")]] }
VarChoices ==
    { [n \in (DOMAIN a) \cup (DOMAIN b) |-> IF n \in DOMAIN a THEN a[n] ELSE b[n]] :
        a \in VarChoicesA, b \in VarChoicesB }
Pieces ==
    { Text("["), Text("]"), Text("\""), Field("A"), Field("B"),
      Field2("A", "F"), Field2("B", "F"), Unclosed("A") }
TemplateTexts == SeqsUpTo(Pieces, MaxPieces)

TemplateInit ==
    /\ noPanic \in BOOLEAN
    /\ TemplateIdle
    /\ PolicyIdle
    /\ StringsIdle
    /\ StmtIdle

\* A faulty variant of templateError: the error is always captured, never thrown.
templateErrorNeverPanics(err) ==
    /\ testTemplateError' = err
    /\ UNCHANGED tpanic

\* templateError(msg, args...): in test mode the error is stored in
\* testTemplateError (and its text returned), otherwise it is thrown by panic.
templateError(err) ==
    IF noPanic
    THEN /\ testTemplateError' = err
         /\ UNCHANGED tpanic
    ELSE /\ tpanic' = err
         /\ UNCHANGED testTemplateError

\* Where templateError leaves its caller: returning the error text, or unwound.
Thrown == ~noPanic /\ tpanic' # NoError

\* A faulty variant of renderTemplate: the join is registered whether or not the
\* template compiled.
renderTemplateIgnoringParse(vs, text, validate) ==
    /\ tpc = "idle"
    /\ tvars' = vs
    /\ tplText' = text
    /\ validateJSON' = validate
    /\ \E order \in RangeOrders(vs) :
          /\ names' = order
          /\ targs' = [i \in 1..Len(order) |-> vs[order[i]]]
    /\ joined' = TRUE
    /\ pending' = { n \in DOMAIN vs : vs[n].async }
    /\ toutput' = PendingOutput
    /\ tpc' = "waiting"
    /\ UNCHANGED <<noPanic, testTemplateError, tpanic, execCount, jsonChecked>>
    /\ UNCHANGED <<stringsVars, policyVars, stmtVars>>

\* renderTemplate(vars, templateText, validateJSON), up to its return: parses
\* the text; on an error calls templateError and returns its text as a resolved
\* output; otherwise collects the names and values of vars in the order the
\* range loop meets them and registers the callback on pulumi.All(args...).
renderTemplate(vs, text, validate) ==
    /\ tpc = "idle"
    /\ tvars' = vs
    /\ tplText' = text
    /\ validateJSON' = validate
    /\ IF ParseFails(text)
       THEN LET err == Errorf(ErrCompileError, "template compile error") IN
            /\ templateError(err)
            /\ tpc' = IF Thrown THEN "panicked" ELSE "returned"
            /\ toutput' = IF Thrown THEN NoOutput ELSE ResolvedOutput(ErrorText(err))
            /\ UNCHANGED <<joined, pending, names, targs>>
       ELSE /\ \E order \in RangeOrders(vs) :
                  /\ names' = order
                  /\ targs' = [i \in 1..Len(order) |-> vs[order[i]]]
            /\ joined' = TRUE
            /\ pending' = { n \in DOMAIN vs : vs[n].async }
            /\ toutput' = PendingOutput
            /\ tpc' = "waiting"
            /\ UNCHANGED <<testTemplateError, tpanic>>
    /\ UNCHANGED <<noPanic, execCount, jsonChecked>>
    /\ UNCHANGED <<stringsVars, policyVars, stmtVars>>

\* template.New(vars, templateText)
TemplateNew ==
    /\ tpc = "idle"
    /\ \E vs \in VarChoices, text \in TemplateTexts : renderTemplate(vs, text, FALSE)

\* template.NewJSON(vars, templateText)
TemplateNewJSON ==
    /\ tpc = "idle"
    /\ \E vs \in VarChoices, text \in TemplateTexts : renderTemplate(vs, text, TRUE)

\* The SDK resolves one asynchronous entry of vars.
ResolveInput(n) ==
    /\ tpc = "waiting"
    /\ n \in pending
    /\ pending' = pending \ {n}
    /\ UNCHANGED <<noPanic, testTemplateError, tpc, tvars, names, targs, tplText,
                   validateJSON, joined, execCount, jsonChecked, toutput, tpanic>>
    /\ UNCHANGED <<stringsVars, policyVars, stmtVars>>

\* A faulty variant of JoinReady: the callback may run at any time.
JoinReadyAlways == TRUE

\* pulumi.All(args...): the joined output resolves, and its ApplyT callback
\* becomes runnable, only once every asynchronous argument has resolved.
JoinReady == pending = {}

\* A faulty variant of the callback: the rendered text is returned without the JSON check.
ApplyTemplateUnchecked ==
    /\ tpc = "waiting"
    /\ JoinReady
    /\ execCount' = execCount + 1
    /\ LET r == Execute(tplText, FinalVars(names, targs)) IN
       IF r.err
       THEN LET err == Errorf(ErrExecuteError, "template execution error") IN
            /\ templateError(err)
            /\ tpc' = IF Thrown THEN "panicked" ELSE "done"
            /\ toutput' = IF Thrown THEN toutput ELSE ResolvedOutput(ErrorText(err))
       ELSE /\ toutput' = ResolvedOutput(r.text)
            /\ tpc' = "done"
            /\ UNCHANGED <<testTemplateError, tpanic>>
    /\ UNCHANGED <<noPanic, tvars, names, targs, tplText, validateJSON, pending, joined,
                   jsonChecked>>
    /\ UNCHANGED <<stringsVars, policyVars, stmtVars>>

\* The ApplyT callback, run by the SDK once every argument of pulumi.All has
\* resolved: executes the template on the resolved vars and, for NewJSON,
\* checks that the result parses as JSON.
ApplyTemplate ==
    /\ tpc = "waiting"
    /\ JoinReady
    /\ execCount' = execCount + 1
    /\ LET r == Execute(tplText, FinalVars(names, targs)) IN
       IF r.err
       THEN LET err == Errorf(ErrExecuteError, "template execution error") IN
            /\ templateError(err)
            /\ tpc' = IF Thrown THEN "panicked" ELSE "done"
            /\ toutput' = IF Thrown THEN toutput ELSE ResolvedOutput(ErrorText(err))
            /\ UNCHANGED jsonChecked
       ELSE IF validateJSON
       THEN /\ jsonChecked' = TRUE
            /\ IF UnmarshalOK(r.text)
               THEN /\ toutput' = ResolvedOutput(r.text)
                    /\ tpc' = "done"
                    /\ UNCHANGED <<testTemplateError, tpanic>>
               ELSE LET err == Errorf(ErrInvalidJSON, "template produced invalid JSON") IN
                    /\ templateError(err)
                    /\ tpc' = IF Thrown THEN "panicked" ELSE "done"
                    /\ toutput' = IF Thrown THEN toutput ELSE ResolvedOutput(ErrorText(err))
       ELSE /\ toutput' = ResolvedOutput(r.text)
            /\ tpc' = "done"
            /\ UNCHANGED <<testTemplateError, tpanic, jsonChecked>>
    /\ UNCHANGED <<noPanic, tvars, names, targs, tplText, validateJSON, pending, joined>>
    /\ UNCHANGED <<stringsVars, policyVars, stmtVars>>

TemplateNext ==
    \/ TemplateNew
    \/ TemplateNewJSON
    \/ \E n \in pending : ResolveInput(n)
    \/ ApplyTemplate

SpecTemplate == TemplateInit /\ [][TemplateNext]_vars

\* SpecTemplate with the scheduling of the SDK: a callback whose joined output
\* has resolved is eventually run.
SpecTemplateFair == TemplateInit /\ [][TemplateNext]_vars /\ WF_vars(ApplyTemplate)

\* ------------------------------------- SpecStmt: the setters of one Statement
\* The variadic arguments a setter is called with.
SetterArgs == { <<Str("a")>>, <<StrInput("b"), List(<<"c">>)>> }
PrincipalTypes == {"AWS", "CanonicalUser"}
ConditionOps == {"StringEquals", "StringLike"}
ConditionKeys == {"aws:userid", "s3:prefix"}
ListSetters == {"Action", "NotAction", "Resource", "NotResource"}

\* Statement(sid, opts...)(p) has built s and is about to apply its opts.
StmtInit ==
    /\ stmt = NewStmt("stmt1")
    /\ history = <<>>
    /\ PolicyIdle
    /\ StringsIdle
    /\ noPanic = FALSE
    /\ TemplateIdle

\* One round of the loop of Statement's closure: opt(&s).
ApplyStatementOpt(o) ==
    /\ Len(history) < MaxOpts
    /\ stmt' = ApplyOpt(stmt, o)
    /\ history' = Append(history, o)
    /\ UNCHANGED <<stringsVars, policyVars, templateVars>>

\* opt = Effect(effect)
CallEffect == \E e \in {Allow, Deny} : ApplyStatementOpt(Opt("Effect", e, "", <<>>))
\* opt = Principal(principalType, principalID...)
CallPrincipal ==
    \E ty \in PrincipalTypes, a \in SetterArgs : ApplyStatementOpt(Opt("Principal", ty, "", a))
\* opt = NotPrincipal(principalType, principalID...)
CallNotPrincipal ==
    \E ty \in PrincipalTypes, a \in SetterArgs : ApplyStatementOpt(Opt("NotPrincipal", ty, "", a))
\* opt = Action(action...)
CallAction == \E a \in SetterArgs : ApplyStatementOpt(Opt("Action", "", "", a))
\* opt = NotAction(action...)
CallNotAction == \E a \in SetterArgs : ApplyStatementOpt(Opt("NotAction", "", "", a))
\* opt = Resource(resource...)
CallResource == \E a \in SetterArgs : ApplyStatementOpt(Opt("Resource", "", "", a))
\* opt = NotResource(resource...)
CallNotResource == \E a \in SetterArgs : ApplyStatementOpt(Opt("NotResource", "", "", a))
\* opt = Condition(conditionOp, conditionKey, conditionValue...)
CallCondition ==
    \E op \in ConditionOps, key \in ConditionKeys, a \in SetterArgs :
        ApplyStatementOpt(Opt("Condition", op, key, a))

StmtNext ==
    \/ CallEffect
    \/ CallPrincipal
    \/ CallNotPrincipal
    \/ CallAction
    \/ CallNotAction
    \/ CallResource
    \/ CallNotResource
    \/ CallCondition

SpecStmt == StmtInit /\ [][StmtNext]_vars

\* ===================================================================== claims

\* The value of the Statement member in a marshalled policy: what follows the
\* eleven tokens { "Version" : v , "Id" : id , "Statement" : up to the closing }.
StatementValue(js) == SubSeq(js, 12, Len(js) - 1)
StmtObjects(stmts) == [i \in 1..Len(stmts) |-> MarshalStmt(stmts[i])]

\* C1: for a policy that passed validation, the serialized Statement is a bare
\* JSON object when the policy holds exactly one statement, and a JSON array of
\* the statements in construction order when it holds two or more.
C1_StatementObjectOrArray ==
    pc = "serialized" =>
        LET stmts == data.Statement IN
        /\ Len(stmts) = 1 => StatementValue(out) = MarshalStmt(stmts[1])
        /\ Len(stmts) >= 2 =>
               StatementValue(out) = <<P("[")>> \o JoinComma(StmtObjects(stmts)) \o <<P("]")>>

RECURSIVE ConcatEntries(_)
\* The strings of the entries of s, in order (built from the last entry back).
ConcatEntries(s) ==
    IF Len(s) = 0 THEN <<>>
    ELSE ConcatEntries(SubSeq(s, 1, Len(s) - 1)) \o s[Len(s)].val

\* C2: Strings.MarshalJSON of entries that are strings or lists of strings
\* yields, by the length of the flattened sequence: a bare JSON string for
\* one string, the empty array for none, and for two or more an array of the
\* strings in order; the number of unflattened entries does not matter.
C2_StringsByFlattenedLength ==
    (spc = "done" /\ \A i \in 1..Len(strs) : IsPlain(strs[i])) =>
        LET flat == ConcatEntries(strs)
            js == sres.js
        IN
        /\ ~sres.panic
        /\ Len(flat) = 1 => js = <<Q(flat[1])>>
        /\ Len(flat) = 0 => js = <<P("["), P("]")>>
        /\ Len(flat) >= 2 =>
               /\ Len(js) = 2 * Len(flat) + 1
               /\ js[1] = P("[")
               /\ js[Len(js)] = P("]")
               /\ \A k \in 1..Len(flat) : js[2 * k] = Q(flat[k])
               /\ \A k \in 1..(Len(flat) - 1) : js[2 * k + 1] = P(",")

\* C2's case: one entry, a list of two strings, marshalled as an array; and
\* three entries flattening to a single string, marshalled as a bare string.
C2_Witness ==
    /\ spc = "done"
    /\ \/ /\ Len(strs) = 1
          /\ strs[1] = List(<<"one", "two">>)
          /\ sres.js = <<P("["), Q("one"), P(","), Q("two"), P("]")>>
       \/ /\ Len(strs) = 3
          /\ Len(ConcatEntries(strs)) = 1
          /\ \A i \in 1..3 : IsPlain(strs[i])
          /\ Len(sres.js) = 1

\* Whether a statement is one the claim says Validate must reject.
Rejectable(s) ==
    \/ s.Effect \notin {Allow, Deny}
    \/ MapLen(s.Principal) > 0 /\ MapLen(s.NotPrincipal) > 0
    \/ Populated(s.Action) /\ Populated(s.NotAction)
    \/ Populated(s.Resource) /\ Populated(s.NotResource)
    \/ ~Populated(s.Action) /\ ~Populated(s.NotAction)

\* C3: Stmt.Validate returns an InvalidStatement error exactly for the
\* statements whose Effect is neither Allow nor Deny, or that have both of
\* Principal / NotPrincipal, Action / NotAction or Resource / NotResource
\* populated, or neither Action nor NotAction; it returns nil for the others.
\* (Populated: the field holds at least one entry or key.)
C3_StmtValidate ==
    scalled # 0 =>
        LET s == policy.Statement[scalled] IN
        IF Rejectable(s) THEN ErrorsIs(serr, ErrInvalidStatement) ELSE serr = NoError

\* C3's case: a statement whose only fault is Resource together with
\* NotResource was validated and rejected.
C3_Witness ==
    /\ scalled # 0
    /\ LET s == policy.Statement[scalled] IN
       /\ s.Effect \in {Allow, Deny}
       /\ Populated(s.Action) /\ ~Populated(s.NotAction)
       /\ MapLen(s.Principal) = 0
       /\ Populated(s.Resource) /\ Populated(s.NotResource)
    /\ ErrorsIs(serr, ErrInvalidStatement)

\* C4: Policy.Validate returns an InvalidPolicy error for every policy whose
\* Version or Id is empty, whatever its statements; ToStringOutput panics with
\* that error.
C4_MissingVersionOrId ==
    (policy.Version = "" \/ policy.ID = "") =>
        /\ vcalled => ErrorsIs(verr, ErrInvalidPolicy)
        /\ pc \in {"applying", "resolved", "serialized", "panicked"} =>
               pc = "panicked" /\ ErrorsIs(panicVal, ErrInvalidPolicy)

\* C4's case: a policy built by New with an empty id and an invalid statement
\* was validated.
C4_Witness ==
    /\ vcalled
    /\ policy.Version # "" /\ policy.ID = ""
    /\ Len(policy.Statement) > 0
    /\ StmtValidate(policy.Statement[1]) # NoError
    /\ ErrorsIs(verr, ErrInvalidPolicy)

\* A policy with Version and Id set and some statement that fails Validate.
HasInvalidStatement ==
    /\ policy.Version # "" /\ policy.ID # ""
    /\ \E i \in 1..Len(policy.Statement) : Rejectable(policy.Statement[i])

\* C5 as stated: for a policy with Version and Id set that contains a statement
\* failing Stmt.Validate, Policy.Validate returns an error that matches
\* ErrInvalidPolicy.
C5_InvalidStatementIsInvalidPolicy ==
    (vcalled /\ HasInvalidStatement) => ErrorsIs(verr, ErrInvalidPolicy)

\* C5 amended: for such a policy Policy.Validate returns the error of the first
\* failing statement wrapped with the policy's id: it matches
\* ErrInvalidStatement and does not match ErrInvalidPolicy.
C5_InvalidStatementIsWrapped ==
    (vcalled /\ HasInvalidStatement) =>
        LET first == CHOOSE i \in 1..Len(policy.Statement) :
                        /\ Rejectable(policy.Statement[i])
                        /\ \A j \in 1..(i - 1) : ~Rejectable(policy.Statement[j])
        IN
        /\ ErrorsIs(verr, ErrInvalidStatement)
        /\ ~ErrorsIs(verr, ErrInvalidPolicy)
        /\ verr.msg = <<"policy has errors">> \o StmtValidate(policy.Statement[first]).msg

\* C5's case: a policy from New("id", ...) whose second statement is the first
\* invalid one was validated.
C5_Witness ==
    /\ vcalled
    /\ HasInvalidStatement
    /\ Len(policy.Statement) = 2
    /\ ~Rejectable(policy.Statement[1])
    /\ ErrorsIs(verr, ErrInvalidStatement)

\* C6: ToStringOutput validates before anything else: called on a policy that
\* fails Validate it panics with that error, having created no output, awaited
\* no input and serialized nothing; an output, an await or a serialization
\* only ever exists for a policy that passed validation.
C6_ValidateFirst ==
    /\ (pc \in {"applying", "resolved", "serialized", "panicked"}
        /\ PolicyValidate(policy) # NoError) =>
           /\ pc = "panicked"
           /\ panicVal = PolicyValidate(policy)
           /\ ~created /\ ~awaited /\ out = <<>> /\ data = NoPolicy
    /\ (created \/ awaited \/ out # <<>> \/ pc \in {"applying", "resolved", "serialized"}) =>
           PolicyValidate(policy) = NoError

\* C6's case: ToStringOutput panicked on a policy whose only fault is an
\* invalid statement, with no output created.
C6_Witness ==
    /\ pc = "panicked"
    /\ HasInvalidStatement
    /\ ErrorsIs(panicVal, ErrInvalidStatement)
    /\ ~created /\ ~awaited /\ out = <<>>
\* The data the template is to be executed on: every name of vars bound to
\* the resolved value of its own entry.
ResolvedVars(vs) == [n \in DOMAIN vs |-> vs[n].val]

\* The error the call or its callback ended with: captured in test mode,
\* thrown otherwise.
LastError == IF noPanic THEN testTemplateError ELSE tpanic

\* The template references a name that is not a key of vars, or a field that
\* the value of the name does not have.
MissingVariable ==
    \E i \in 1..Len(tplText) :
        tplText[i].k \in {"field", "field2"} /\ tplText[i].a \notin DOMAIN tvars
MissingField ==
    \E i \in 1..Len(tplText) :
        /\ tplText[i].k = "field2"
        /\ tplText[i].a \in DOMAIN tvars
        /\ ~(tvars[tplText[i].a].val.kind = "struct" /\ tplText[i].b = "F")

\* C7: a template that references a variable name not present in vars, or a
\* field that does not exist on a resolved value, ends in an ExecuteError once
\* it is executed, and its output never resolves to a rendered string.
C7_BadReferenceIsExecuteError ==
    (execCount > 0 /\ (MissingVariable \/ MissingField)) =>
        /\ ErrorsIs(LastError, ErrExecuteError)
        /\ toutput.state = "resolved" => toutput.text = ErrorText(LastError)

\* The chunks a rendered text is made of.
Chunks == {"[", "]", "\"", "1", "ok", "x", "{x}", NoValue}

RECURSIVE JSONTexts(_)
\* Every JSON document of at most n chunks: a number (1s), a string (any
\* chunks but a quote between two quotes), or an array of nothing or of one
\* JSON value.
JSONTexts(n) ==
    IF n <= 0 THEN {}
    ELSE { [i \in 1..k |-> "1"] : k \in 1..n }
         \cup (IF n < 2 THEN {}
               ELSE { <<"\"">> \o w \o <<"\"">> : w \in SeqsUpTo(Chunks \ {"\""}, n - 2) }
                    \cup { <<"[", "]">> }
                    \cup { <<"[">> \o v \o <<"]">> : v \in JSONTexts(n - 2) })
ValidJSON == JSONTexts(MaxPieces)

\* C8: when the template executed without error, NewJSON ends in an
\* InvalidJSON error if the rendered text is not valid JSON and returns the
\* rendered text unchanged if it is; New returns the rendered text unchanged
\* whether or not it is valid JSON, with no InvalidJSON error and no JSON check.
C8_JSONValidation ==
    LET r == Execute(tplText, ResolvedVars(tvars)) IN
    (execCount > 0 /\ ~r.err) =>
        IF validateJSON /\ r.text \notin ValidJSON
        THEN /\ ErrorsIs(LastError, ErrInvalidJSON)
             /\ toutput # ResolvedOutput(r.text)
        ELSE /\ LastError = NoError
             /\ tpc = "done"
             /\ toutput = ResolvedOutput(r.text)
             /\ ~validateJSON => ~jsonChecked

\* C8's case: NewJSON rendered "ok" between quotes from an output, valid JSON,
\* and returned it unchanged.
C8_Witness ==
    /\ tpc = "done"
    /\ validateJSON
    /\ tplText = <<Text("\""), Field("A"), Text("\"")>>
    /\ toutput = ResolvedOutput(<<"\"", "ok", "\"">>)
    /\ LastError = NoError

\* C9: for a malformed template text New / NewJSON end in a CompileError at the
\* call itself: no join over the inputs is registered, no input is awaited, the
\* template is never executed and no JSON validation runs.
C9_CompileErrorAtCallTime ==
    (tpc # "idle" /\ ParseFails(tplText)) =>
        /\ tpc \in {"returned", "panicked"}
        /\ ErrorsIs(LastError, ErrCompileError)
        /\ ~joined
        /\ pending = {}
        /\ execCount = 0
        /\ ~jsonChecked

\* C9's case: NewJSON was called with a malformed template and an unresolved
\* output among its vars.
C9_Witness ==
    /\ tpc \in {"returned", "panicked"}
    /\ ParseFails(tplText)
    /\ validateJSON
    /\ \E n \in DOMAIN tvars : tvars[n].async
    /\ ErrorsIs(LastError, ErrCompileError)
    /\ ~joined

\* C10 as stated: a compile failure is never thrown out of New / NewJSON: in
\* every mode the call returns an output that carries the CompileError.
C10_CompileErrorNeverThrown ==
    (tpc # "idle" /\ ParseFails(tplText)) =>
        /\ tpc = "returned"
        /\ tpanic = NoError
        /\ toutput.state = "resolved"

\* C10 amended: in test mode (noPanic set) a compile failure is not thrown: the
\* call returns a resolved output holding the error's text, the CompileError
\* being captured in testTemplateError; in normal mode the call panics with the
\* CompileError and returns no output.
C10_CompileErrorThrownUnlessTestMode ==
    (tpc # "idle" /\ ParseFails(tplText)) =>
        IF noPanic
        THEN /\ tpc = "returned"
             /\ tpanic = NoError
             /\ ErrorsIs(testTemplateError, ErrCompileError)
             /\ toutput = ResolvedOutput(ErrorText(testTemplateError))
        ELSE /\ tpc = "panicked"
             /\ ErrorsIs(tpanic, ErrCompileError)
             /\ testTemplateError = NoError
             /\ toutput = NoOutput

\* C10's case: in test mode a malformed template came back as a resolved output.
C10_Witness ==
    /\ noPanic
    /\ ParseFails(tplText)
    /\ tpc = "returned"
    /\ toutput.state = "resolved"
    /\ ErrorsIs(testTemplateError, ErrCompileError)
\* The join barrier and single execution, the safety half of C11: the template
\* is never executed while an input is unresolved, and at most once per call.
JoinBarrier == [](execCount > 0 => pending = {}) /\ [](execCount <= 1)

\* C11 as stated: for a template that compiles, the template is executed only
\* after every asynchronous entry of vars has resolved, at most once per call,
\* and once all inputs have resolved it eventually runs and the returned
\* output resolves.
C11_JoinThenOutputResolves ==
    /\ JoinBarrier
    /\ (tpc = "waiting" /\ pending = {}) ~> (execCount = 1 /\ toutput.state = "resolved")

\* C11 amended: as stated, except that the returned output resolves only if
\* the callback does not end in an error in normal mode: there an ExecuteError
\* or InvalidJSON error is thrown by panic from the callback and the output
\* stays unresolved.
C11_JoinThenRunsOnce ==
    /\ JoinBarrier
    /\ (tpc = "waiting" /\ pending = {}) ~>
           /\ execCount = 1
           /\ IF ~noPanic /\ tpanic # NoError
              THEN tpc = "panicked" /\ toutput.state = "pending"
              ELSE tpc = "done" /\ toutput.state = "resolved"

\* C11's case: a call with two asynchronous inputs, both resolved, whose
\* template was then executed once and whose output resolved.
C11_Witness ==
    /\ Cardinality({ n \in DOMAIN tvars : tvars[n].async }) = 2
    /\ pending = {}
    /\ execCount = 1
    /\ tpc = "done"
    /\ toutput.state = "resolved"
\* What a call whose template compiles must end in, from its arguments and
\* the mode alone: the state of the call and the returned output.
ExpectedOutcome(vs, text, validate, testMode) ==
    LET r == Execute(text, ResolvedVars(vs))
        failed == r.err \/ (validate /\ r.text \notin ValidJSON)
        errText == IF r.err THEN <<"template execution error">>
                   ELSE <<"template produced invalid JSON">>
    IN
    IF ~failed THEN [tpc |-> "done", toutput |-> ResolvedOutput(r.text)]
    ELSE IF testMode THEN [tpc |-> "done", toutput |-> ResolvedOutput(errText)]
    ELSE [tpc |-> "panicked", toutput |-> PendingOutput]

\* C12: rendering is deterministic: what a call ends in is a function of its
\* vars and template text alone, whatever the order in which the vars map is
\* iterated and in which the inputs resolve; each name is paired with the value
\* of its own entry and of no other.
C12_Deterministic ==
    /\ joined =>
           /\ Len(names) = Cardinality(DOMAIN tvars)
           /\ Len(targs) = Len(names)
           /\ { names[i] : i \in 1..Len(names) } = DOMAIN tvars
           /\ \A i \in 1..Len(names) : targs[i] = tvars[names[i]]
    /\ execCount > 0 =>
           [tpc |-> tpc, toutput |-> toutput]
               = ExpectedOutcome(tvars, tplText, validateJSON, noPanic)

\* C12's case: the range loop met B before A, both asynchronous, and the
\* template naming A then B rendered A's value then B's.
C12_Witness ==
    /\ tpc = "done"
    /\ names = <<"B", "A">>
    /\ \A n \in DOMAIN tvars : tvars[n].async
    /\ tplText = <<Field("A"), Field("B")>>
    /\ toutput = ResolvedOutput(<<"ok", "1">>)


\* ---------------------------------------------------------------- C13
\* The arguments, in call order, of the calls history[i] with i in S.
RECURSIVE ArgsAt(_, _)
ArgsAt(S, i) ==
    IF i > Len(history) THEN <<>>
    ELSE (IF i \in S THEN history[i].args ELSE <<>>) \o ArgsAt(S, i + 1)
CallsOf(name) == ArgsAt({i \in 1..Len(history) : history[i].name = name}, 1)
CallsOfType(name, ty) ==
    ArgsAt({i \in 1..Len(history) : history[i].name = name /\ history[i].t = ty}, 1)
TypesNamed(name) == {history[i].t : i \in {j \in 1..Len(history) : history[j].name = name}}
StmtFields == {"Sid", "Effect", "Principal", "NotPrincipal", "Action", "NotAction",
               "Resource", "NotResource", "Condition"}
LastOpt == history'[Len(history')]

Accumulated ==
    /\ \A f \in ListSetters : stmt[f] = CallsOf(f)
    /\ \A f \in {"Principal", "NotPrincipal"} :
        /\ DOMAIN stmt[f] = TypesNamed(f)
        /\ \A ty \in PrincipalTypes : MapGet(stmt[f], ty) = CallsOfType(f, ty)
\* One call of an accumulating setter leaves the rest of the statement alone.
AccumulatingSetterFrame ==
    LastOpt.name \in ListSetters \cup {"Principal", "NotPrincipal"} =>
        /\ \A f \in StmtFields \ {LastOpt.name} : stmt'[f] = stmt[f]
        /\ LastOpt.name \in {"Principal", "NotPrincipal"} =>
            \A ty \in PrincipalTypes \ {LastOpt.t} :
                /\ ty \in DOMAIN stmt'[LastOpt.name] <=> ty \in DOMAIN stmt[LastOpt.name]
                /\ MapGet(stmt'[LastOpt.name], ty) = MapGet(stmt[LastOpt.name], ty)

\* C13: within one Statement(...), Action, NotAction, Resource and NotResource each
\* hold the concatenation, in call order, of the arguments of their own calls, each
\* principal type of Principal / NotPrincipal holds the concatenation of the
\* identifiers given for that type, and a setter changes no field but its own
\* (for Principal / NotPrincipal, no principal type but the one named).
C13_SettersAccumulate == [](Accumulated) /\ [][AccumulatingSetterFrame]_vars

\* Action was called twice with a Principal call in between, and both Action and
\* the named principal type hold everything they were given, in order.
C13_Witness ==
    /\ history = << Opt("Action", "", "", <<Str("a")>>),
                    Opt("Principal", "AWS", "", <<StrInput("b"), List(<<"c">>)>>),
                    Opt("Action", "", "", <<StrInput("b"), List(<<"c">>)>>) >>
    /\ stmt.Action = <<Str("a"), StrInput("b"), List(<<"c">>)>>
    /\ stmt.Principal = MapPut(EmptyMap, "AWS", <<StrInput("b"), List(<<"c">>)>>)

\* ---------------------------------------------------------------- C14
HasPair(c, op, key) == op \in DOMAIN c /\ key \in DOMAIN c[op]
PairGet(c, op, key) == c[op][key]
ConditionCalls(op, key) ==
    {i \in 1..Len(history) :
        history[i].name = "Condition" /\ history[i].t = op /\ history[i].k = key}
Latest(S) == CHOOSE i \in S : \A j \in S : j <= i

LastWriteWins ==
    \A op \in ConditionOps, key \in ConditionKeys :
        IF ConditionCalls(op, key) = {}
        THEN ~HasPair(stmt.Condition, op, key)
        ELSE /\ HasPair(stmt.Condition, op, key)
             /\ PairGet(stmt.Condition, op, key) = history[Latest(ConditionCalls(op, key))].args
\* One Condition call leaves every other pair and every other field alone.
ConditionFrame ==
    LastOpt.name = "Condition" =>
        /\ \A f \in StmtFields \ {"Condition"} : stmt'[f] = stmt[f]
        /\ \A op \in ConditionOps, key \in ConditionKeys :
            <<op, key>> # <<LastOpt.t, LastOpt.k>> =>
                /\ HasPair(stmt'.Condition, op, key) <=> HasPair(stmt.Condition, op, key)
                /\ HasPair(stmt.Condition, op, key) =>
                    PairGet(stmt'.Condition, op, key) = PairGet(stmt.Condition, op, key)

\* C14: after any sequence of Condition calls in one statement, the values stored
\* under (op, key) are exactly those of the most recent call for that pair, and a
\* Condition call leaves every other pair and every other field unchanged.
C14_ConditionLastWriteWins == [](LastWriteWins) /\ [][ConditionFrame]_vars

\* The same pair was set twice with different values, another pair in between:
\* the pair holds the second call's values only, the other pair its own.
C14_Witness ==
    /\ history = << Opt("Condition", "StringLike", "s3:prefix", <<StrInput("b"), List(<<"c">>)>>),
                    Opt("Condition", "StringLike", "aws:userid", <<StrInput("b"), List(<<"c">>)>>),
                    Opt("Condition", "StringLike", "s3:prefix", <<Str("a")>>) >>
    /\ PairGet(stmt.Condition, "StringLike", "s3:prefix") = <<Str("a")>>
    /\ PairGet(stmt.Condition, "StringLike", "aws:userid") = <<StrInput("b"), List(<<"c">>)>>

\* ---------------------------------------------------------------- C15
HasNull(js) == \E i \in 1..Len(js) : js[i] = JNull
HasEmptyList(js) == \E i \in 1..(Len(js) - 1) : js[i] = P("[") /\ js[i + 1] = P("]")
HasEmptyObject(js) == \E i \in 1..(Len(js) - 1) : js[i] = P("{") /\ js[i + 1] = P("}")

\* C15: for every policy that passes validation, the serialized document holds no
\* field with a null value, an empty list or an empty object: a field is present
\* only when it carries at least one value.
C15_EmptyFieldsOmitted ==
    pc = "serialized" => ~HasNull(out) /\ ~HasEmptyList(out) /\ ~HasEmptyObject(out)

====
